---- MODULE Spec2Model ----
(***************************************************************************)
(* rplaylist: a playlist generator that walks a first-order Markov chain   *)
(* built from a listening history (src/main.rs).                           *)
(*                                                                         *)
(* main() is one sequential pipeline: open the file, read the rows into    *)
(* all_songs (each row inserted at the front), count the adjacent pairs    *)
(* into unique_songs, reshape every row with the creativity rule, pick a   *)
(* random row key as the seed and print playlist_length songs.  pc is the  *)
(* position of main() in that pipeline.                                    *)
(*                                                                         *)
(* f32 values are modelled by exact rationals [n, d] in lowest terms.      *)
(* Counts are small integers, which f32 holds exactly, and f32 rounding is *)
(* monotone, so every comparison the code makes (count < row_average,      *)
(* count > row_average, count < 1) has the outcome computed here; the      *)
(* rounding of the quotient row_total / len itself is not modelled.        *)
(* HashMap iteration order and the random source are nondeterministic      *)
(* choices.                                                                *)
(***************************************************************************)
EXTENDS Integers, Sequences, FiniteSets, TLC

\* ------------------------------------------------------------------ bounds

\* Longest input file, in rows.
MaxRows == 4
\* Largest requested playlist length.
MaxLength == 3

\* ------------------------------------------------------------------ values

\* A Song is compared by its whole (track, artist, album) triple; three
\* distinct triples stand for the songs of a history.
Song == {"A", "B", "C"}

\* A row of the file that the csv reader cannot deserialize into a Song.
Malformed == "malformed"

\* No song chosen yet (an unset local of main).
NoSong == "none"

\* The None that random_song / WeightedIndex::new unwrap() on: a panic.
Panicked == "panicked"

RECURSIVE Gcd(_, _)
Gcd(a, b) == IF b = 0 THEN a ELSE Gcd(b, a % b)

Abs(x) == IF x < 0 THEN 0 - x ELSE x

\* The f32 n/d (d > 0), in lowest terms so that equal values are equal records.
F32(n, d) ==
    LET g == Gcd(Abs(n), d)
    IN  [n |-> n \div g, d |-> d \div g]

FromInt(k) == F32(k, 1)

Add(x, y) == F32(x.n * y.d + y.n * x.d, x.d * y.d)

Sub(x, y) == F32(x.n * y.d - y.n * x.d, x.d * y.d)

Mul(x, y) == F32(x.n * y.n, x.d * y.d)

\* x / (len as f32), len > 0
DivLen(x, len) == F32(x.n, x.d * len)

Less(x, y) == x.n * y.d < y.n * x.d

\* ------------------------------------------------------------------ inputs

\* The files read: every sequence of at most MaxRows rows.
Files == UNION {[1..n -> Song \cup {Malformed}] : n \in 0..MaxRows}

\* The values of --length: any i32 parses, zero and negatives included.
Lengths == (0 - 1)..MaxLength

\* The values of --creativity.
Creativities == {F32(0, 1), F32(1, 2), F32(1, 1), F32(2, 1)}

VARIABLES
    file,             \* the rows of the input file, first row first
    playlist_length,  \* parse_args: --length
    creativity,       \* parse_args: --creativity
    pc,               \* position of main()
    pos,              \* rows the csv reader has consumed
    all_songs,        \* Vec<Song>
    i,                \* loop variable of the builder loop, then of the walk loop
    unique_songs,     \* HashMap<Song, HashMap<Song, f32>>
    rows_left,        \* rows the smoother's outer iterator has yet to visit
    key_song,         \* row the smoother is in (NoSong between rows)
    row_average,      \* mean of that row, fixed before the row is mutated
    counts_left,      \* entries the inner iterator has yet to visit
    next_song,        \* entry adjusted and not yet clamped (NoSong otherwise)
    current_song,     \* the walk's current song
    out               \* the numbered song lines printed

vars == <<file, playlist_length, creativity, pc, pos, all_songs, i, unique_songs,
          rows_left, key_song, row_average, counts_left, next_song, current_song, out>>

smoother == <<rows_left, key_song, row_average, counts_left, next_song>>

inputs == <<file, playlist_length, creativity>>

EmptyMap == [s \in {} |-> s]

Init ==
    /\ file \in Files
    /\ playlist_length \in Lengths
    /\ creativity \in Creativities
    /\ pc = "open"
    /\ pos = 0
    /\ all_songs = <<>>
    /\ i = 0
    /\ unique_songs = EmptyMap
    /\ rows_left = {}
    /\ key_song = NoSong
    /\ row_average = FromInt(0)
    /\ counts_left = {}
    /\ next_song = NoSong
    /\ current_song = NoSong
    /\ out = <<>>

\* ------------------------------------------------------------------ loader

\* File::open succeeds.
OpenOk ==
    /\ pc = "open"
    /\ pc' = "read"
    /\ UNCHANGED <<inputs, pos, all_songs, i, unique_songs, smoother, current_song, out>>

\* File::open fails: message, exit(1).
OpenFail ==
    /\ pc = "open"
    /\ pc' = "exit1"
    /\ UNCHANGED <<inputs, pos, all_songs, i, unique_songs, smoother, current_song, out>>

\* Variant: songs_list.push(record), the file's order kept.
push_back(songs_list, record) == Append(songs_list, record)

\* songs_list.insert(0, record)
insert_front(songs_list, record) == <<record>> \o songs_list

\* One iteration of read_songs: `row?` returns the error of a malformed row
\* (main prints it and exits 1), any other record goes to the front.
ReadRow ==
    /\ pc = "read"
    /\ pos < Len(file)
    /\ pos' = pos + 1
    /\ IF file[pos + 1] = Malformed
         THEN /\ pc' = "exit1"
              /\ UNCHANGED all_songs
         ELSE /\ pc' = "read"
              /\ all_songs' = insert_front(all_songs, file[pos + 1])
    /\ UNCHANGED <<inputs, i, unique_songs, smoother, current_song, out>>

\* read_songs returns Ok(()).
ReadDone ==
    /\ pc = "read"
    /\ pos = Len(file)
    /\ pc' = "build"
    /\ i' = 0
    /\ UNCHANGED <<inputs, pos, all_songs, unique_songs, smoother, current_song, out>>

\* ------------------------------------------------------------------ builder

\* Variant: the entry is overwritten with 1.0 instead of incremented.
count_pair_overwrite(uniques, current, next) ==
    LET current_song_map ==
            IF current \in DOMAIN uniques THEN uniques[current] ELSE (next :> FromInt(0))
        row == [t \in DOMAIN current_song_map \cup {next} |->
                   IF t = next THEN FromInt(1) ELSE current_song_map[t]]
    IN  [s \in DOMAIN uniques \cup {current} |-> IF s = current THEN row ELSE uniques[s]]

\* Variant: the pair is counted and a row is also ensured for the successor.
count_pair_both(uniques, current, next) ==
    LET current_song_map ==
            IF current \in DOMAIN uniques THEN uniques[current] ELSE (next :> FromInt(0))
        old == IF next \in DOMAIN current_song_map THEN current_song_map[next] ELSE FromInt(0)
        row == [t \in DOMAIN current_song_map \cup {next} |->
                   IF t = next THEN Add(old, FromInt(1)) ELSE current_song_map[t]]
    IN  [s \in DOMAIN uniques \cup {current, next} |->
            IF s = current THEN row
            ELSE IF s \in DOMAIN uniques THEN uniques[s] ELSE EmptyMap]

\* The body of the builder loop for the pair (current, next):
\*   next_songs = {next: 0.0}
\*   current_song_map = unique_songs.entry(current).or_insert(next_songs)
\*   *current_song_map.entry(next).or_insert(0.0) += 1.0
count_pair(uniques, current, next) ==
    LET current_song_map ==
            IF current \in DOMAIN uniques THEN uniques[current] ELSE (next :> FromInt(0))
        old == IF next \in DOMAIN current_song_map THEN current_song_map[next] ELSE FromInt(0)
        row == [t \in DOMAIN current_song_map \cup {next} |->
                   IF t = next THEN Add(old, FromInt(1)) ELSE current_song_map[t]]
    IN  [s \in DOMAIN uniques \cup {current} |-> IF s = current THEN row ELSE uniques[s]]

\* `all_songs.len() - 1` on an empty Vec: the subtraction panics in a build
\* with overflow checks; without them it wraps to usize::MAX and the first
\* iteration unwraps all_songs.get(0) = None.  Either build panics.
BuildUnderflow ==
    /\ pc = "build"
    /\ Len(all_songs) = 0
    /\ pc' = "panic"
    /\ UNCHANGED <<inputs, pos, all_songs, i, unique_songs, smoother, current_song, out>>

\* One iteration of `for i in 0..all_songs.len() - 1` (i is 0-based).
BuildStep ==
    /\ pc = "build"
    /\ Len(all_songs) > 0
    /\ i < Len(all_songs) - 1
    /\ unique_songs' = count_pair(unique_songs, all_songs[i + 1], all_songs[i + 2])
    /\ i' = i + 1
    /\ UNCHANGED <<inputs, pc, pos, all_songs, smoother, current_song, out>>

\* The builder loop ends; the smoother's outer iterator starts.
BuildDone ==
    /\ pc = "build"
    /\ Len(all_songs) > 0
    /\ i >= Len(all_songs) - 1
    /\ pc' = "smooth"
    /\ rows_left' = DOMAIN unique_songs
    /\ UNCHANGED <<inputs, pos, all_songs, i, unique_songs, key_song, row_average,
                   counts_left, next_song, current_song, out>>

\* ------------------------------------------------------------------ smoother

RECURSIVE row_total(_, _)
\* row_total += *count over the entries `songs` of a row
row_total(following_songs, songs) ==
    IF songs = {} THEN FromInt(0)
    ELSE LET t == CHOOSE t \in songs : TRUE
         IN  Add(following_songs[t], row_total(following_songs, songs \ {t}))

\* row_total / following_songs.len() as f32.  An empty row would give 0/0;
\* its mean is never read because the inner loop has nothing to visit.
mean(following_songs) ==
    IF DOMAIN following_songs = {} THEN FromInt(0)
    ELSE DivLen(row_total(following_songs, DOMAIN following_songs),
                Cardinality(DOMAIN following_songs))

\* Variant: the entry moves toward the mean by creativity * (mean - count).
adjust_toward(count, average, c) == Add(count, Mul(Sub(average, count), c))

\* Variant: the creativity factor is dropped from the shift.
adjust_unscaled(count, average, c) ==
    IF Less(count, average) THEN Add(count, average)
    ELSE IF Less(average, count) THEN Sub(count, average)
    ELSE count

\* if *count < row_average { *count += row_average * creativity }
\* else if *count > row_average { *count -= row_average * creativity }
adjust(count, average, c) ==
    IF Less(count, average) THEN Add(count, Mul(average, c))
    ELSE IF Less(average, count) THEN Sub(count, Mul(average, c))
    ELSE count

\* Variant: no floor.
clamp_none(count) == count

\* if *count < 1 as f32 { *count = 1 as f32 }
clamp(count) == IF Less(count, FromInt(1)) THEN FromInt(1) ELSE count

\* The outer iterator yields a row: its mean is computed before any entry
\* of the row changes.
SmoothRow ==
    /\ pc = "smooth"
    /\ key_song = NoSong
    /\ \E s \in rows_left :
         /\ rows_left' = rows_left \ {s}
         /\ row_average' = mean(unique_songs[s])
         /\ counts_left' = DOMAIN unique_songs[s]
         /\ key_song' = IF DOMAIN unique_songs[s] = {} THEN NoSong ELSE s
    /\ UNCHANGED <<inputs, pc, pos, all_songs, i, unique_songs, next_song, current_song, out>>

\* The inner iterator yields an entry: the mean-centred adjustment.
SmoothCount ==
    /\ pc = "smooth"
    /\ key_song # NoSong
    /\ next_song = NoSong
    /\ \E t \in counts_left :
         /\ counts_left' = counts_left \ {t}
         /\ next_song' = t
         /\ unique_songs' =
              [unique_songs EXCEPT ![key_song][t] = adjust(@, row_average, creativity)]
    /\ UNCHANGED <<inputs, pc, pos, all_songs, i, rows_left, key_song, row_average,
                   current_song, out>>

\* The floor clamp of the entry just adjusted; the row ends with its last entry.
SmoothClamp ==
    /\ pc = "smooth"
    /\ next_song # NoSong
    /\ unique_songs' = [unique_songs EXCEPT ![key_song][next_song] = clamp(@)]
    /\ next_song' = NoSong
    /\ key_song' = IF counts_left = {} THEN NoSong ELSE key_song
    /\ UNCHANGED <<inputs, pc, pos, all_songs, i, rows_left, row_average, counts_left,
                   current_song, out>>

\* The outer iterator is exhausted.
SmoothDone ==
    /\ pc = "smooth"
    /\ key_song = NoSong
    /\ rows_left = {}
    /\ pc' = "seed"
    /\ UNCHANGED <<inputs, pos, all_songs, i, unique_songs, smoother, current_song, out>>

\* ------------------------------------------------------------------ walk

\* uniques.keys().choose(rng).unwrap(): any row key; None of an empty table.
random_song(uniques) ==
    IF DOMAIN uniques = {} THEN {Panicked} ELSE DOMAIN uniques

\* WeightedIndex::new(&weights).unwrap() fails on no items, on a negative
\* weight and on a zero total; otherwise an index is drawn with probability
\* proportional to its weight, so only entries of positive weight are drawn.
choose_by_prob(probabilities) ==
    IF \/ DOMAIN probabilities = {}
       \/ \E t \in DOMAIN probabilities : Less(probabilities[t], FromInt(0))
       \/ \A t \in DOMAIN probabilities : probabilities[t] = FromInt(0)
    THEN {Panicked}
    ELSE {t \in DOMAIN probabilities : Less(FromInt(0), probabilities[t])}

\* Variant: a dead end repeats the current song instead of restarting.
predict_next_stay(song, uniques) ==
    IF song \in DOMAIN uniques /\ DOMAIN uniques[song] # {}
    THEN choose_by_prob(uniques[song])
    ELSE {song}

\* uniques.get(current_song) is Some and non-empty: sample its row;
\* otherwise a random row key.
predict_next(song, uniques) ==
    IF song \in DOMAIN uniques /\ DOMAIN uniques[song] # {}
    THEN choose_by_prob(uniques[song])
    ELSE random_song(uniques)

\* println!("{}.\t{} - {}", i, artist, track)
line(num, song) == [num |-> num, song |-> song]

\* Variant: the exclusive range 2..playlist_length.
in_range_exclusive(k, length) == k < length

\* 2..=playlist_length contains i
in_range(k, length) == k <= length

\* Variant: the seed line is printed only when a positive length was asked.
Seed_if_positive ==
    /\ pc = "seed"
    /\ \E r \in random_song(unique_songs) :
         IF r = Panicked
         THEN /\ pc' = "panic"
              /\ UNCHANGED <<i, current_song, out>>
         ELSE /\ pc' = "walk"
              /\ current_song' = r
              /\ out' = IF playlist_length >= 1 THEN <<line(1, r)>> ELSE <<>>
              /\ i' = 2
    /\ UNCHANGED <<inputs, pos, all_songs, unique_songs, smoother>>

\* let mut current_song = random_song(&unique_songs); println!("1.\t...")
Seed ==
    /\ pc = "seed"
    /\ \E r \in random_song(unique_songs) :
         IF r = Panicked
         THEN /\ pc' = "panic"
              /\ UNCHANGED <<i, current_song, out>>
         ELSE /\ pc' = "walk"
              /\ current_song' = r
              /\ out' = <<line(1, r)>>
              /\ i' = 2
    /\ UNCHANGED <<inputs, pos, all_songs, unique_songs, smoother>>

\* One iteration of `for i in 2..=playlist_length`.
WalkStep ==
    /\ pc = "walk"
    /\ in_range(i, playlist_length)
    /\ \E r \in predict_next(current_song, unique_songs) :
         IF r = Panicked
         THEN /\ pc' = "panic"
              /\ UNCHANGED <<i, current_song, out>>
         ELSE /\ pc' = "walk"
              /\ current_song' = r
              /\ out' = Append(out, line(i, r))
              /\ i' = i + 1
    /\ UNCHANGED <<inputs, pos, all_songs, unique_songs, smoother>>

\* The range 2..=playlist_length is exhausted; main returns.
WalkDone ==
    /\ pc = "walk"
    /\ ~in_range(i, playlist_length)
    /\ pc' = "done"
    /\ UNCHANGED <<inputs, pos, all_songs, i, unique_songs, smoother, current_song, out>>

\* ------------------------------------------------------------------ system

Next ==
    \/ OpenOk
    \/ OpenFail
    \/ ReadRow
    \/ ReadDone
    \/ BuildUnderflow
    \/ BuildStep
    \/ BuildDone
    \/ SmoothRow
    \/ SmoothCount
    \/ SmoothClamp
    \/ SmoothDone
    \/ Seed
    \/ WalkStep
    \/ WalkDone

Spec == Init /\ [][Next]_vars

\* ------------------------------------------------------------------ properties

\* The number of positions k with H[k] = a and H[k+1] = b.
Count(H, a, b) == Cardinality({k \in 1..(Len(H) - 1) : H[k] = a /\ H[k + 1] = b})

\* The songs that follow a somewhere in H.
Successors(H, a) == {b \in Song : Count(H, a, b) >= 1}

\* The number of positions before the last that hold a.
Outgoing(H, a) == Cardinality({k \in 1..(Len(H) - 1) : H[k] = a})

\* The mean weight of a's row as the history determines it.
RowMean(H, a) == F32(Outgoing(H, a), Cardinality(Successors(H, a)))

\* The builder has finished and the smoother has touched nothing yet.
Built ==
    /\ pc = "smooth"
    /\ key_song = NoSong
    /\ rows_left = DOMAIN unique_songs

\* The smoother has finished.
Smoothed == pc \in {"seed", "walk", "done"}

AtLeastOne(w) == IF Less(w, FromInt(1)) THEN FromInt(1) ELSE w

\* C1: for a history of length >= 2, the table the builder leaves (before
\* smoothing) holds, for every pair (a, b) that occurs adjacently at least
\* once, exactly the number of its occurrences; self-transitions and repeated
\* pairs are counted like any other.
C1_PairCounts ==
    (Built /\ Len(all_songs) >= 2) =>
        \A a \in Song, b \in Song :
            Count(all_songs, a, b) >= 1 =>
                /\ a \in DOMAIN unique_songs
                /\ b \in DOMAIN unique_songs[a]
                /\ unique_songs[a][b] = FromInt(Count(all_songs, a, b))

\* A built table in which a self-transition was seen twice and another pair
\* from the same song once.
C1_Witness ==
    /\ Built
    /\ \E a \in Song, b \in Song :
         /\ a # b
         /\ Count(all_songs, a, a) = 2
         /\ Count(all_songs, a, b) = 1
         /\ unique_songs[a][a] = FromInt(2)

\* C2: no phantom entries: every row key of the table occurs in the history
\* before its last position, every successor key of a row was seen right
\* after the row's song; a song that occurs only as the last element is never
\* a row key.
C2_NoPhantom ==
    (pc \in {"build", "smooth", "seed", "walk", "done"}) =>
        \A s \in DOMAIN unique_songs :
            /\ Outgoing(all_songs, s) >= 1
            /\ \A t \in DOMAIN unique_songs[s] : Count(all_songs, s, t) >= 1

\* A built, non-empty table whose history ends in a song seen nowhere else.
C2_Witness ==
    /\ Built
    /\ Len(all_songs) >= 3
    /\ Outgoing(all_songs, all_songs[Len(all_songs)]) = 0
    /\ DOMAIN unique_songs # {}
    /\ all_songs[Len(all_songs)] \notin DOMAIN unique_songs

\* C3: after the builder and the smoother, every row is non-empty and every
\* weight is >= 1, so no sampler call of the walk fails; with a history of
\* length >= 2 the run never panics.
C3_WeightFloor ==
    /\ Smoothed =>
         \A s \in DOMAIN unique_songs :
             /\ DOMAIN unique_songs[s] # {}
             /\ \A t \in DOMAIN unique_songs[s] : ~Less(unique_songs[s][t], FromInt(1))
    /\ (pc = "walk" /\ current_song \in DOMAIN unique_songs) =>
         Panicked \notin choose_by_prob(unique_songs[current_song])
    /\ (pc = "panic") => Len(all_songs) < 2

\* The walk is about to sample a row one of whose weights the clamp raised
\* to 1 (creativity 2 had pushed it below zero).
C3_Witness ==
    /\ pc = "walk"
    /\ in_range(i, playlist_length)
    /\ creativity = FromInt(2)
    /\ current_song \in DOMAIN unique_songs
    /\ \E t \in DOMAIN unique_songs[current_song] :
         /\ Count(all_songs, current_song, t) >= 2
         /\ unique_songs[current_song][t] = FromInt(1)

\* C4 as stated: with creativity 1 every entry equals the row mean before the
\* clamp, and the larger of the row mean and 1 after it.
C4_Uniform ==
    creativity = FromInt(1) =>
        /\ (pc = "smooth" /\ next_song # NoSong) =>
              unique_songs[key_song][next_song] = row_average
        /\ Smoothed =>
              \A s \in DOMAIN unique_songs : \A t \in DOMAIN unique_songs[s] :
                  unique_songs[s][t] = AtLeastOne(RowMean(all_songs, s))

\* What creativity 1 does to a count w of a row of mean mu.
Shifted(w, mu) ==
    IF w * mu.d < mu.n THEN F32(w * mu.d + mu.n, mu.d)
    ELSE IF w * mu.d > mu.n THEN F32(w * mu.d - mu.n, mu.d)
    ELSE FromInt(w)

\* C4 (amended): with creativity 1, before the clamp a count below the row
\* mean has the mean added, a count above it has the mean subtracted and a
\* count equal to it is unchanged; after the clamp the entry is the larger of
\* that value and 1.
C4_Shifted ==
    creativity = FromInt(1) =>
        /\ (pc = "smooth" /\ next_song # NoSong) =>
              unique_songs[key_song][next_song] =
                  Shifted(Count(all_songs, key_song, next_song), RowMean(all_songs, key_song))
        /\ Smoothed =>
              \A s \in DOMAIN unique_songs : \A t \in DOMAIN unique_songs[s] :
                  unique_songs[s][t] =
                      AtLeastOne(Shifted(Count(all_songs, s, t), RowMean(all_songs, s)))

\* Creativity 1 has just shifted an entry of a row that was not uniform, and
\* the clamp is about to raise it.
C4_Witness ==
    /\ creativity = FromInt(1)
    /\ pc = "smooth"
    /\ next_song # NoSong
    /\ unique_songs[key_song][next_song] # row_average
    /\ Less(unique_songs[key_song][next_song], FromInt(1))

\* C5: for a requested length N >= 1 and a non-empty table the walk ends,
\* having printed exactly N lines numbered 1, 2, ..., N.  Termination is
\* stated by the loop's variant: seeding a non-empty table starts the walk,
\* a walking run is never stuck and never panics, every step of the walk
\* prints one line and moves i one closer to playlist_length + 1, which it
\* never passes.
C5_WalkLength ==
    /\ [](\A k \in 1..Len(out) : out[k].num = k)
    /\ []((pc = "done" /\ playlist_length >= 1) => Len(out) = playlist_length)
    /\ []((pc = "walk" /\ playlist_length >= 1) =>
            /\ i <= playlist_length + 1
            /\ Len(out) = i - 1
            /\ ENABLED Next)
    /\ [][(pc = "seed" /\ DOMAIN unique_songs # {}) => pc' = "walk"]_vars
    /\ [][(pc = "walk" /\ playlist_length >= 1) =>
            \/ pc' = "walk" /\ i' = i + 1 /\ Len(out') = Len(out) + 1
            \/ pc' = "done" /\ i = playlist_length + 1 /\ out' = out]_vars

\* A finished walk of three lines that passed through a dead end.
C5_Witness ==
    /\ pc = "done"
    /\ playlist_length = 3
    /\ Len(out) = 3
    /\ \E k \in 1..2 : out[k].song \notin DOMAIN unique_songs

\* C6: the first song printed is a row key; every later one is a successor
\* key of the previous song's row when the previous song has a row, and a
\* row key otherwise.  So the history [A, B] with N = 3 prints A, B, A and a
\* table whose only row is A -> {A} prints A at every position.
C6_WalkPolicy ==
    /\ \A k \in 1..Len(out) :
         IF k = 1 THEN out[k].song \in DOMAIN unique_songs
         ELSE IF out[k - 1].song \in DOMAIN unique_songs
              THEN out[k].song \in DOMAIN unique_songs[out[k - 1].song]
              ELSE out[k].song \in DOMAIN unique_songs
    /\ (pc = "done" /\ all_songs = <<"A", "B">> /\ playlist_length = 3) =>
         [k \in 1..Len(out) |-> out[k].song] = <<"A", "B", "A">>
    /\ (DOMAIN unique_songs = {"A"} /\ DOMAIN unique_songs["A"] = {"A"}) =>
         \A k \in 1..Len(out) : out[k].song = "A"

\* The walk over the history [A, B] has printed its third line, after the
\* dead end B.
C6_Witness ==
    /\ pc = "done"
    /\ all_songs = <<"A", "B">>
    /\ playlist_length = 3
    /\ Len(out) = 3

\* C7: a history of fewer than two songs is rejected: the run ends with the
\* input-error exit and nothing printed, never in a crash.
C7_ShortHistoryRejected ==
    (Len(file) < 2 /\ pc \in {"done", "exit1", "panic"}) =>
        (pc = "exit1" /\ out = <<>>)

\* C8: with creativity 0 no step of the smoother changes the table: rows,
\* successor keys and weights stay as the builder left them.
C8_IdentityAtZero ==
    [][(pc = "smooth" /\ creativity = FromInt(0)) => unique_songs' = unique_songs]_vars

\* The smoother has finished with creativity 0 on a row of unequal weights.
C8_Witness ==
    /\ pc = "seed"
    /\ creativity = FromInt(0)
    /\ \E s \in DOMAIN unique_songs : \E t \in DOMAIN unique_songs[s] :
         \E u \in DOMAIN unique_songs[s] : Less(unique_songs[s][t], unique_songs[s][u])

\* C9: the loader leaves the file's rows in reverse order, the file's first
\* row last, and every transition in the table is (r_{k+1} -> r_k) for two
\* consecutive rows r_k, r_{k+1} of the file.
C9_Reversal ==
    (pc \in {"build", "smooth", "seed", "walk", "done", "panic"}) =>
        /\ Len(all_songs) = Len(file)
        /\ \A k \in 1..Len(file) : all_songs[k] = file[Len(file) + 1 - k]
        /\ \A a \in DOMAIN unique_songs : \A b \in DOMAIN unique_songs[a] :
               \E k \in 1..(Len(file) - 1) : file[k + 1] = a /\ file[k] = b

\* A table built from a file of three or more rows whose first row is a song
\* that occurs nowhere else, so it has no row of its own.
C9_Witness ==
    /\ Built
    /\ Len(file) >= 3
    /\ \A k \in 2..Len(file) : file[k] # file[1]
    /\ file[1] \notin DOMAIN unique_songs
    /\ file[Len(file)] \in DOMAIN unique_songs
    /\ all_songs[Len(all_songs)] = file[1]

\* C10: when the requested length is <= 0 the walk still prints the seed as
\* line 1 and stops: max(N, 1) lines are printed, never none.
C10_NonPositiveLength ==
    (pc = "done") =>
        /\ Len(out) = (IF playlist_length >= 1 THEN playlist_length ELSE 1)
        /\ (playlist_length <= 0) =>
              /\ out = <<line(1, current_song)>>
              /\ current_song \in DOMAIN unique_songs

\* A finished run that was asked for a negative length.
C10_Witness ==
    /\ pc = "done"
    /\ playlist_length < 0
    /\ Len(out) = 1

====
